---------------------------- MODULE Spec2Model ----------------------------
(***************************************************************************)
(* Model of github_rate_limit_checker.py: the installation-token minter    *)
(* (GitHubRateLimitChecker._get_installation_token), the per-account       *)
(* session authentication (_ensure_auth), the two quota fetches            *)
(* (check_rate_limit, check_graphql_rate_limit) and the thread-pool        *)
(* fan-out / fan-in of check_all_apps.                                     *)
(*                                                                         *)
(* The remote API, the key files and the wall clock are the environment:   *)
(* every answer of the API is a nondeterministic choice, the state of a    *)
(* key file is fixed when the process starts, and the clock moves forward  *)
(* between any two steps.                                                  *)
(***************************************************************************)
EXTENDS Integers, FiniteSets, Sequences, TLC

(***************************************************************************)
(* Bounds of the model.                                                    *)
(***************************************************************************)
\* number of configured accounts (len(self.apps))
NumApps == 2
\* number of check_all_apps passes (poll cycles) explored
MaxPasses == 2
\* installation tokens the remote API issues to one account
MaxTokens == 2
\* accounts of a pass in the model of the executor (one more than max_workers)
MaxTasks == 11
\* threads that call the token minter for one account at the same time
NumCallers == 2
\* largest limit / remaining value the status label is computed for
MaxLimit == 10

(***************************************************************************)
(* Program constants.                                                      *)
(***************************************************************************)
\* "with 5 min buffer": now + 300
Margin == 300
\* "Installation tokens expire after 1 hour": now + 3600
TokenLifetime == 3600
\* ThreadPoolExecutor(max_workers=min(len(self.apps), 10))
MaxWorkers == 10

Apps == 1..NumApps

\* The instants the wall clock is observed at, in seconds after the start of
\* the process: the start, and just before and at the refresh point of a token
\* exchanged at 0 (0 + 3600 - 300).
Instants == {0, 3299, 3300}

Min(x, y) == IF x <= y THEN x ELSE y

(***************************************************************************)
(* Credentials.  None is Python's None (also: no Authorization header).    *)
(* owner is the account a credential was issued to or signed for.          *)
(***************************************************************************)
None == [kind |-> "none", owner |-> 0, n |-> 0]
\* app.token, a personal access token
Pat(a) == [kind |-> "pat", owner |-> a, n |-> 0]
\* token_data['token']: the k-th installation token the API issued to a
InstTok(a, k) == [kind |-> "inst", owner |-> a, n |-> k]
\* jwt.encode({'iat': now, 'exp': now + 600, 'iss': app.app_id}, key, 'RS256')
Jwt(a, now) == [kind |-> "jwt", owner |-> a, n |-> now]

(***************************************************************************)
(* Account configurations the loaders build (AppCredentials), with the     *)
(* state of the private key file: "ok", "unreadable" (open() fails) or     *)
(* "malformed" (readable, but jwt.encode raises on it).                    *)
(***************************************************************************)
PatProfile ==
    [token |-> TRUE, app_id |-> FALSE, installation_id |-> FALSE,
     private_key_path |-> FALSE, keyFile |-> "ok"]
\* (jwt.encode raises before the installation id is looked at, so the id is
\* varied for a key file that can be read only)
AppProfiles ==
    {p \in [token : {FALSE}, app_id : {TRUE}, installation_id : BOOLEAN,
            private_key_path : {TRUE},
            keyFile : {"ok", "unreadable", "malformed"}] :
        p.keyFile = "malformed" => p.installation_id}
\* load_apps_from_config_file / load_apps_from_directory pass app_id,
\* installation_id and private_key_path on as the JSON has them: with empty
\* strings the account has neither a token nor a signing identity
NeitherProfile ==
    [token |-> FALSE, app_id |-> FALSE, installation_id |-> FALSE,
     private_key_path |-> FALSE, keyFile |-> "ok"]
Profiles == {PatProfile, NeitherProfile} \cup AppProfiles

VARIABLES
    apps,        \* self.apps: account -> AppCredentials (immutable fields) + key file state
    jwtAvailable,\* JWT_AVAILABLE
    clock,       \* time.time()
    cachedTok,   \* app.cached_installation_token
    expiresAt,   \* app.token_expires_at
    sessions,    \* self.sessions[name].headers['Authorization']
    issued,      \* installation tokens the API has issued per account
    pcMain,      \* position of the caller of check_all_apps
    passes,      \* check_all_apps passes started
    results,     \* the results dict of check_all_apps
    pc,          \* position of each per-account task (future)
    tnow,        \* the local 'now' of a running _get_installation_token
    rest,        \* rest_data of the task
    gql,         \* graphql_data of the task
    bearer,      \* Authorization value of the account's most recent request
    apiFailed,   \* some API answer of this pass was a failure
    lastCall,    \* the most recent completed _get_installation_token call
    mode,        \* what main() runs: "single", "watch" or "serve" (--prometheus)
    req,         \* self.path of the GET being handled (or handled last)
    resp,        \* what the process last wrote: HTTP response or printed report
    scrapes,     \* GET requests for /metrics received
    limit,       \* print_rate_limit_status: limits.get('limit', 0)
    remaining,   \* print_rate_limit_status: limits.get('remaining', 0)
    status,      \* print_rate_limit_status: the status label
    numTasks,    \* executor: len(self.apps) of the pass
    slot,        \* executor: state of each submitted future
    cpc,         \* concurrent callers of the minter: position
    cnow,        \* concurrent callers: local 'now'
    ctok,        \* concurrent callers: token_data['token'] received
    cseen,       \* concurrent callers: what line 124 read
    cret,        \* concurrent callers: value returned
    expFor       \* concurrent callers: the token token_expires_at was written for

presVars == <<mode, req, resp, scrapes>>
sideVars == <<limit, remaining, status, numTasks, slot, cpc, cnow, ctok,
              cseen, cret, expFor>>

vars == <<apps, jwtAvailable, clock, cachedTok, expiresAt, sessions, issued,
          pcMain, passes, results, pc, tnow, rest, gql, bearer, apiFailed,
          lastCall, presVars, sideVars>>


(***************************************************************************)
(* Values of the task and of the results dict.                             *)
(***************************************************************************)
\* rest_data: "ok" = the JSON of /rate_limit, "error" = {'error': ...}
RestOutcomes == {"ok", "error"}
\* answers to the graph query: 2xx with data.rateLimit, 2xx without the
\* rateLimit object, 2xx with an 'errors' list, RequestException
GqlAnswers == {"ok", "no_rate_limit", "error_list", "fail"}
\* graphql_data: "ok" = data.rateLimit, "empty" = {} (plus app_metadata),
\* "error" = {'error': ...}
GqlData(answer) ==
    CASE answer = "ok" -> "ok"
      [] answer = "no_rate_limit" -> "empty"
      [] OTHER -> "error"

\* name not (yet) in results
Absent == [kind |-> "absent", rest |-> "unset", graphql |-> "unset"]
\* {'rest_api': rest_data, 'graphql': graphql_data}
Record(r, g) == [kind |-> "record", rest |-> r, graphql |-> g]
\* {'error': str(e), 'app_metadata': {...}} stored by check_all_apps
TaskError == [kind |-> "task_error", rest |-> "unset", graphql |-> "unset"]
\* the exception leaves check_all_apps
Propagate == [kind |-> "propagate", rest |-> "unset", graphql |-> "unset"]

\* executor futures and concurrent callers of the minter
Slots == 1..MaxTasks
Callers == 1..NumCallers
\* nothing read at line 124 yet
NoRead == [tok |-> None, exp |-> 0, expFor |-> None]

NoCall ==
    [path |-> "none", now |-> 0, oldTok |-> None, oldExp |-> 0, ret |-> None,
     posted |-> FALSE, prevRet |-> None, oldHdr |-> None]

(***************************************************************************)
(* GitHubRateLimitChecker._setup_sessions                                  *)
(***************************************************************************)
\* (variant: one session shared by every account)
SessionKey_shared(a) == 1

\* self.sessions is keyed by app.name
SessionKey(a) == a

\* (variant: no session gets the static token)
SetupSessions_noheader == [k \in Apps |-> None]

\* for app in self.apps: ... self.sessions[app.name] = session
\* (the last account of a key wins)
SetupSessions ==
    [k \in Apps |->
        LET owners == {a \in Apps : SessionKey(a) = k}
            last == CHOOSE a \in owners : \A b \in owners : b <= a
        IN  IF owners = {} THEN None
            ELSE IF apps[last].token THEN Pat(last) ELSE None]

(***************************************************************************)
(* GitHubRateLimitChecker._get_installation_token                          *)
(***************************************************************************)
\* (variant: the comparison admits the boundary)
CacheValid_inclusive(a, now) == cachedTok[a] # None /\ expiresAt[a] >= now + Margin

\* (variant: the token lifetime is taken for the safety margin)
CacheValid_lifetime(a, now) ==
    cachedTok[a] # None /\ expiresAt[a] > now + TokenLifetime

\* if app.cached_installation_token and app.token_expires_at > (now + 300)
CacheValid(a, now) == cachedTok[a] # None /\ expiresAt[a] > now + Margin

\* (variant: the clock is read again when the answer arrives)
ExpiryOnExchange_reread(now) == clock + TokenLifetime

\* app.token_expires_at = now + 3600, now being the local read at entry
ExpiryOnExchange(now) == now + TokenLifetime

\* (variant: the signed assertion is returned when the exchange fails)
OnExchangeFailure_fallback(jwt_token) == jwt_token

\* except requests.exceptions.RequestException: ... return None
OnExchangeFailure(jwt_token) == None

\* (variant: the exchange is requested whether or not an installation id is
\* configured)
MinterLocal_exchange(a, now) ==
    IF ~jwtAvailable THEN [path |-> "raise", ret |-> None]
    ELSE IF CacheValid(a, now) THEN [path |-> "cache", ret |-> cachedTok[a]]
    ELSE IF apps[a].keyFile = "unreadable" THEN [path |-> "nokey", ret |-> None]
    ELSE IF apps[a].keyFile = "malformed" THEN [path |-> "raise", ret |-> None]
    ELSE [path |-> "post", ret |-> Jwt(a, now)]

\* The part of the call before the token-exchange request: what it returns,
\* or that it raises ("raise"), or that it goes on to POST ("post").
MinterLocal(a, now) ==
    IF ~jwtAvailable THEN [path |-> "raise", ret |-> None]
    ELSE IF CacheValid(a, now) THEN [path |-> "cache", ret |-> cachedTok[a]]
    ELSE IF apps[a].keyFile = "unreadable" THEN [path |-> "nokey", ret |-> None]
    ELSE IF apps[a].keyFile = "malformed" THEN [path |-> "raise", ret |-> None]
    ELSE IF apps[a].installation_id THEN [path |-> "post", ret |-> Jwt(a, now)]
    ELSE [path |-> "jwt", ret |-> Jwt(a, now)]

(***************************************************************************)
(* GitHubRateLimitChecker._ensure_auth                                     *)
(***************************************************************************)
\* if token: session.headers['Authorization'] = f'token {token}'
SetAuthHeader(old, token) == IF token # None THEN token ELSE old

\* the record of a completed _get_installation_token call
CallRecord(a, path, now, ret, posted) ==
    [path |-> path, now |-> now, oldTok |-> cachedTok[a],
     oldExp |-> expiresAt[a], ret |-> ret, posted |-> posted,
     prevRet |-> lastCall[a].ret, oldHdr |-> sessions[SessionKey(a)]]

AuthPcs == {"rest_auth", "gql_auth"}
XchgPcs == {"rest_xchg", "gql_xchg"}
AfterAuth(p) == IF p \in {"rest_auth", "rest_xchg"} THEN "rest_req" ELSE "gql_req"
Running == {"rest_auth", "rest_xchg", "rest_req", "gql_auth", "gql_xchg", "gql_req"}
\* (variant: a future that raised is never seen as completed)
Terminated_returned == {"done"}

\* a future is completed when the task returned or raised
Terminated == {"done", "raised"}

(***************************************************************************)
(* GitHubRateLimitChecker.check_all_apps                                   *)
(***************************************************************************)
\* max_workers=min(len(self.apps), 10)
PoolWidth == Min(NumApps, MaxWorkers)

\* (variant: the loop ends at the first stored future)
AllCollected_first == \E a \in Apps : results[a].kind # "absent"

\* as_completed(future_to_app) is exhausted: every future has been stored
AllCollected == \A a \in Apps : results[a].kind # "absent"

\* (variant: no except clause around future.result())
CollectEntry_uncaught(a) ==
    IF pc[a] = "done" THEN Record(rest[a], gql[a]) ELSE Propagate

\* try: results[app.name] = future.result()
\* except Exception as e: results[app.name] = {'error': ..., 'app_metadata': ...}
CollectEntry(a) ==
    IF pc[a] = "done" THEN Record(rest[a], gql[a]) ELSE TaskError

(***************************************************************************)
(* main(): the three ways the result of a pass is presented.  "single" and *)
(* "watch" print the text report (lines 618-620, 637-639); "serve" is      *)
(* export_prometheus_metrics.  (--json prints json.dumps of the result,    *)
(* which reads no key of an entry, and is left out.)                       *)
(***************************************************************************)
Modes == {"single", "watch", "serve"}
\* self.path of a GET: the metrics path, and any other path
Paths == {"/metrics", "/other"}

\* what is written for one account: the value of github_app_status (-1: no
\* such line), whether the REST gauges and the graph-query gauges are there,
\* and what print_rate_limit_status printed
NoLines == [health |-> -1, restGauges |-> FALSE, gqlGauges |-> FALSE, text |-> "none"]
NoResp == [code |-> 0, body |-> [a \in Apps |-> NoLines]]

\* app_data.get('rest_api', {}) and app_data.get('graphql', {}): "missing" is
\* the default {} of an entry without the key
RestPart(e) == IF e.kind = "record" THEN e.rest ELSE "missing"
GqlPart(e) == IF e.kind = "record" THEN e.graphql ELSE "missing"

\* status = 0 if 'error' in rest_data else 1
HealthGauge(rest_data) == IF rest_data = "error" THEN 0 ELSE 1

\* if 'resources' in rest_data
RestGauges(rest_data) == rest_data = "ok"

\* if 'error' not in graphql_data and graphql_data: "empty" is the dict that
\* holds app_metadata only, which is not empty
GqlGauges(graphql_data) == graphql_data # "error" /\ graphql_data # "missing"

\* the lines do_GET appends for one entry of all_app_data
MetricsLines(e) ==
    [health |-> HealthGauge(RestPart(e)), restGauges |-> RestGauges(RestPart(e)),
     gqlGauges |-> GqlGauges(GqlPart(e)), text |-> "none"]

\* (variant: any path is served the metrics)
Route_any(path) == "metrics"

\* if self.path != '/metrics': send_response(404) ... return
Route(path) == IF path # "/metrics" THEN "not_found" ELSE "metrics"

\* app_data['rest_api'] in main(): an entry without the key raises KeyError
MainRest(e) == IF e.kind = "record" THEN e.rest ELSE "KeyError"

\* print_rate_limit_status(app_name, data): the error line, or the block of
\* per-resource status lines
TextLines(data) ==
    [health |-> -1, restGauges |-> FALSE, gqlGauges |-> FALSE,
     text |-> IF data = "error" THEN "error" ELSE "block"]

(***************************************************************************)
(* Initial state: the process after GitHubRateLimitChecker(apps=apps).     *)
(***************************************************************************)
\* no status label is being computed
StatusIdle ==
    /\ limit = 0
    /\ remaining = 0
    /\ status = "unset"

\* no executor has been created
PoolIdle ==
    /\ numTasks = 0
    /\ slot = [i \in Slots |-> "none"]

\* no thread is inside _get_installation_token
CallersIdle ==
    /\ cpc = [c \in Callers |-> "idle"]
    /\ cnow = [c \in Callers |-> 0]
    /\ ctok = [c \in Callers |-> None]
    /\ cseen = [c \in Callers |-> NoRead]
    /\ cret = [c \in Callers |-> None]
    /\ expFor = None

CoreInit ==
    /\ apps \in [Apps -> Profiles]
    /\ jwtAvailable \in BOOLEAN
    /\ clock = 0
    /\ cachedTok = [a \in Apps |-> None]
    /\ expiresAt = [a \in Apps |-> 0]
    /\ sessions = SetupSessions
    /\ issued = [a \in Apps |-> 0]
    /\ mode \in Modes
    /\ pcMain = IF mode = "serve" THEN "serving" ELSE "idle"
    /\ passes = 0
    /\ results = [a \in Apps |-> Absent]
    /\ pc = [a \in Apps |-> "idle"]
    /\ tnow = [a \in Apps |-> 0]
    /\ rest = [a \in Apps |-> "unset"]
    /\ gql = [a \in Apps |-> "unset"]
    /\ bearer = [a \in Apps |-> None]
    /\ apiFailed = FALSE
    /\ lastCall = [a \in Apps |-> NoCall]
    /\ req = "none"
    /\ resp = NoResp
    /\ scrapes = 0

Init == CoreInit /\ StatusIdle /\ PoolIdle /\ CallersIdle

(***************************************************************************)
(* The environment: the wall clock moves forward.                          *)
(***************************************************************************)
Tick ==
    /\ \E t \in Instants : t > clock /\ clock' = t
    /\ UNCHANGED <<apps, jwtAvailable, cachedTok, expiresAt, sessions, issued,
                   pcMain, passes, results, pc, tnow, rest, gql, bearer,
                   apiFailed, lastCall>>
    /\ UNCHANGED <<presVars, sideVars>>

(***************************************************************************)
(* check_all_apps: submit one task per account to the pool.                *)
(***************************************************************************)
StartPass ==
    /\ pcMain = "idle"
    /\ passes < MaxPasses
    /\ pcMain' = "collecting"
    /\ passes' = passes + 1
    /\ results' = [a \in Apps |-> Absent]
    /\ pc' = [a \in Apps |-> "queued"]
    /\ UNCHANGED <<apps, jwtAvailable, clock, cachedTok, expiresAt, sessions,
                   issued, tnow, rest, gql, bearer, apiFailed, lastCall>>
    /\ UNCHANGED <<presVars, sideVars>>

\* a pool worker takes the task: _check_app_limits(app) begins
TaskStart(a) ==
    /\ pc[a] = "queued"
    /\ Cardinality({b \in Apps : pc[b] \in Running}) < PoolWidth
    /\ pc' = [pc EXCEPT ![a] = "rest_auth"]
    /\ UNCHANGED <<apps, jwtAvailable, clock, cachedTok, expiresAt, sessions,
                   issued, pcMain, passes, results, tnow, rest, gql, bearer,
                   apiFailed, lastCall>>
    /\ UNCHANGED <<presVars, sideVars>>

(***************************************************************************)
(* self._ensure_auth(app), up to the token-exchange request if one is made *)
(***************************************************************************)
EnsureAuth(a) ==
    /\ pc[a] \in AuthPcs
    /\ IF apps[a].token
       THEN /\ pc' = [pc EXCEPT ![a] = AfterAuth(@)]
            /\ UNCHANGED <<sessions, tnow, lastCall>>
       ELSE IF apps[a].app_id /\ apps[a].private_key_path
       THEN LET m == MinterLocal(a, clock) IN
            CASE m.path = "raise" ->
                    /\ pc' = [pc EXCEPT ![a] = "raised"]
                    /\ UNCHANGED <<sessions, tnow, lastCall>>
              [] m.path = "post" ->
                    /\ pc' = [pc EXCEPT ![a] =
                                IF @ = "rest_auth" THEN "rest_xchg" ELSE "gql_xchg"]
                    /\ tnow' = [tnow EXCEPT ![a] = clock]
                    /\ UNCHANGED <<sessions, lastCall>>
              [] OTHER ->
                    /\ pc' = [pc EXCEPT ![a] = AfterAuth(@)]
                    /\ sessions' = [sessions EXCEPT ![SessionKey(a)] =
                                        SetAuthHeader(@, m.ret)]
                    /\ lastCall' = [lastCall EXCEPT ![a] =
                                        CallRecord(a, m.path, clock, m.ret, FALSE)]
                    /\ UNCHANGED tnow
       ELSE /\ pc' = [pc EXCEPT ![a] = AfterAuth(@)]
            /\ UNCHANGED <<sessions, tnow, lastCall>>
    /\ UNCHANGED <<apps, jwtAvailable, clock, cachedTok, expiresAt, issued,
                   pcMain, passes, results, rest, gql, bearer, apiFailed>>
    /\ UNCHANGED <<presVars, sideVars>>

\* requests.post(.../access_tokens) answered 2xx with {'token': ...}
ExchangeOk(a) ==
    /\ pc[a] \in XchgPcs
    /\ issued[a] < MaxTokens
    /\ LET tok == InstTok(a, issued[a] + 1) IN
        /\ issued' = [issued EXCEPT ![a] = @ + 1]
        /\ cachedTok' = [cachedTok EXCEPT ![a] = tok]
        /\ expiresAt' = [expiresAt EXCEPT ![a] = ExpiryOnExchange(tnow[a])]
        /\ sessions' = [sessions EXCEPT ![SessionKey(a)] = SetAuthHeader(@, tok)]
        /\ lastCall' = [lastCall EXCEPT ![a] =
                            CallRecord(a, "exchange", tnow[a], tok, TRUE)]
    /\ pc' = [pc EXCEPT ![a] = AfterAuth(@)]
    /\ tnow' = [tnow EXCEPT ![a] = 0]
    /\ UNCHANGED <<apps, jwtAvailable, clock, pcMain, passes, results, rest,
                   gql, bearer, apiFailed>>
    /\ UNCHANGED <<presVars, sideVars>>

\* (variant: the failed exchange drops the cached token)
ExchangeFail_clears(a) ==
    /\ pc[a] \in XchgPcs
    /\ cachedTok' = [cachedTok EXCEPT ![a] = None]
    /\ LET ret == OnExchangeFailure(Jwt(a, tnow[a])) IN
        /\ sessions' = [sessions EXCEPT ![SessionKey(a)] = SetAuthHeader(@, ret)]
        /\ lastCall' = [lastCall EXCEPT ![a] =
                            CallRecord(a, "xfail", tnow[a], ret, TRUE)]
    /\ pc' = [pc EXCEPT ![a] = AfterAuth(@)]
    /\ tnow' = [tnow EXCEPT ![a] = 0]
    /\ apiFailed' = TRUE
    /\ UNCHANGED <<apps, jwtAvailable, clock, expiresAt, issued, pcMain,
                   passes, results, rest, gql, bearer>>
    /\ UNCHANGED <<presVars, sideVars>>

\* requests.post(.../access_tokens) raised a RequestException
ExchangeFail(a) ==
    /\ pc[a] \in XchgPcs
    /\ LET ret == OnExchangeFailure(Jwt(a, tnow[a])) IN
        /\ sessions' = [sessions EXCEPT ![SessionKey(a)] = SetAuthHeader(@, ret)]
        /\ lastCall' = [lastCall EXCEPT ![a] =
                            CallRecord(a, "xfail", tnow[a], ret, TRUE)]
    /\ pc' = [pc EXCEPT ![a] = AfterAuth(@)]
    /\ tnow' = [tnow EXCEPT ![a] = 0]
    /\ apiFailed' = TRUE
    /\ UNCHANGED <<apps, jwtAvailable, clock, cachedTok, expiresAt, issued,
                   pcMain, passes, results, rest, gql, bearer>>
    /\ UNCHANGED <<presVars, sideVars>>

(***************************************************************************)
(* check_rate_limit after _ensure_auth: session.get(.../rate_limit)        *)
(***************************************************************************)
RestFetch(a) ==
    /\ pc[a] = "rest_req"
    /\ \E o \in RestOutcomes :
        /\ rest' = [rest EXCEPT ![a] = o]
        /\ apiFailed' = (apiFailed \/ o = "error")
    /\ bearer' = [bearer EXCEPT ![a] = sessions[SessionKey(a)]]
    /\ pc' = [pc EXCEPT ![a] = "gql_auth"]
    /\ UNCHANGED <<apps, jwtAvailable, clock, cachedTok, expiresAt, sessions,
                   issued, pcMain, passes, results, tnow, gql, lastCall>>
    /\ UNCHANGED <<presVars, sideVars>>

(***************************************************************************)
(* check_graphql_rate_limit after _ensure_auth: session.post(.../graphql), *)
(* then _check_app_limits returns {'rest_api': ..., 'graphql': ...}        *)
(***************************************************************************)
GqlFetch(a) ==
    /\ pc[a] = "gql_req"
    /\ \E o \in GqlAnswers :
        /\ gql' = [gql EXCEPT ![a] = GqlData(o)]
        /\ apiFailed' = (apiFailed \/ o \in {"fail", "error_list"})
    /\ bearer' = [bearer EXCEPT ![a] = sessions[SessionKey(a)]]
    /\ pc' = [pc EXCEPT ![a] = "done"]
    /\ UNCHANGED <<apps, jwtAvailable, clock, cachedTok, expiresAt, sessions,
                   issued, pcMain, passes, results, tnow, rest, lastCall>>
    /\ UNCHANGED <<presVars, sideVars>>

(***************************************************************************)
(* check_all_apps: the as_completed loop stores one finished future        *)
(***************************************************************************)
Collect(a) ==
    /\ pcMain = "collecting"
    /\ pc[a] \in Terminated
    /\ results[a].kind = "absent"
    /\ LET e == CollectEntry(a) IN
        IF e.kind = "propagate"
        THEN pcMain' = "crashed" /\ UNCHANGED results
        ELSE results' = [results EXCEPT ![a] = e] /\ UNCHANGED pcMain
    /\ UNCHANGED <<apps, jwtAvailable, clock, cachedTok, expiresAt, sessions,
                   issued, passes, pc, tnow, rest, gql, bearer, apiFailed,
                   lastCall>>
    /\ UNCHANGED <<presVars, sideVars>>

\* the loop ends, the executor is shut down, return results
Return ==
    /\ pcMain = "collecting"
    /\ AllCollected
    /\ pcMain' = "returned"
    /\ UNCHANGED <<apps, jwtAvailable, clock, cachedTok, expiresAt, sessions,
                   issued, passes, results, pc, tnow, rest, gql, bearer,
                   apiFailed, lastCall>>
    /\ UNCHANGED <<presVars, sideVars>>

(***************************************************************************)
(* export_prometheus_metrics: MetricsHandler.do_GET up to the call of      *)
(* check_all_apps (HTTPServer handles one request at a time)               *)
(***************************************************************************)
HttpGet(path) ==
    /\ pcMain = "serving"
    /\ req' = path
    /\ IF Route(path) = "not_found"
       THEN /\ resp' = [code |-> 404, body |-> NoResp.body]
            /\ UNCHANGED <<pcMain, scrapes>>
       ELSE /\ scrapes < MaxPasses
            /\ scrapes' = scrapes + 1
            /\ pcMain' = "idle"
            /\ resp' = NoResp
    /\ UNCHANGED <<apps, jwtAvailable, clock, cachedTok, expiresAt, sessions,
                   issued, passes, results, pc, tnow, rest, gql, bearer,
                   apiFailed, lastCall, mode>>
    /\ UNCHANGED sideVars

(***************************************************************************)
(* What follows all_app_data = checker.check_all_apps(): do_GET renders    *)
(* the metrics and answers 200; main() prints one report per entry, and an *)
(* exception of that loop ends the process.                                *)
(***************************************************************************)
Present ==
    /\ pcMain = "returned"
    /\ IF mode = "serve"
       THEN /\ resp' = [code |-> 200,
                        body |-> [a \in Apps |-> MetricsLines(results[a])]]
            /\ pcMain' = "presented"
       ELSE IF \E a \in Apps : MainRest(results[a]) = "KeyError"
       THEN /\ pcMain' = "aborted"
            /\ UNCHANGED resp
       ELSE /\ resp' = [code |-> 0,
                        body |-> [a \in Apps |-> TextLines(MainRest(results[a]))]]
            /\ pcMain' = "presented"
    /\ UNCHANGED <<apps, jwtAvailable, clock, cachedTok, expiresAt, sessions,
                   issued, passes, results, pc, tnow, rest, gql, bearer,
                   apiFailed, lastCall, mode, req, scrapes>>
    /\ UNCHANGED sideVars

\* the caller is done with the result (it is discarded): the watch loop
\* sleeps and polls again, the server waits for the next request, the single
\* check ends
NextCycle ==
    /\ pcMain = "presented"
    /\ pcMain' = CASE mode = "watch" -> "idle"
                   [] mode = "serve" -> "serving"
                   [] OTHER -> "exited"
    /\ results' = [a \in Apps |-> Absent]
    /\ pc' = [a \in Apps |-> "idle"]
    /\ rest' = [a \in Apps |-> "unset"]
    /\ gql' = [a \in Apps |-> "unset"]
    /\ bearer' = [a \in Apps |-> None]
    /\ apiFailed' = FALSE
    /\ resp' = NoResp
    /\ UNCHANGED <<apps, jwtAvailable, clock, cachedTok, expiresAt, sessions,
                   issued, passes, tnow, lastCall, mode, req, scrapes>>
    /\ UNCHANGED sideVars

Next ==
    \/ Tick
    \/ StartPass
    \/ \E a \in Apps : TaskStart(a)
    \/ \E a \in Apps : EnsureAuth(a)
    \/ \E a \in Apps : ExchangeOk(a)
    \/ \E a \in Apps : ExchangeFail(a)
    \/ \E a \in Apps : RestFetch(a)
    \/ \E a \in Apps : GqlFetch(a)
    \/ \E a \in Apps : Collect(a)
    \/ Return
    \/ \E path \in Paths : HttpGet(path)
    \/ Present
    \/ NextCycle

Spec == Init /\ [][Next]_vars


(***************************************************************************)
(* Properties.                                                             *)
(***************************************************************************)
\* the account authenticates as a GitHub App (second branch of _ensure_auth)
IsApp(a) == ~apps[a].token /\ apps[a].app_id /\ apps[a].private_key_path

\* the cache held a token that was beyond the margin at the call's 'now'
WasValid(c) == c.oldTok # None /\ c.oldExp > c.now + Margin

\* the call returned a credential created by this very call
NewlyMinted(a, c) ==
    \/ c.ret = Jwt(a, c.now)
    \/ /\ c.ret.kind = "inst"
       /\ c.ret.owner = a
       /\ c.ret.n > c.oldTok.n

\* positions at which the request that followed the last minter call was sent
AfterRequest == {"gql_auth", "done"}

C2_ValidCacheReturnedUnchanged ==
    \A a \in Apps :
        LET c == lastCall[a] IN
        /\ (c.path # "none" /\ WasValid(c)) => c.path = "cache"
        /\ c.path = "cache" =>
                /\ WasValid(c)
                /\ c.ret = c.oldTok
                /\ ~c.posted
                /\ cachedTok[a] = c.oldTok
                /\ expiresAt[a] = c.oldExp
                /\ c.ret = c.prevRet

\* a cache hit at a later instant than the exchange that filled the cache
C2_Witness ==
    \E a \in Apps :
        /\ lastCall[a].path = "cache"
        /\ lastCall[a].now > 0
        /\ lastCall[a].ret = lastCall[a].prevRet
        /\ lastCall[a].ret.kind = "inst"

\* C3: a call that exchanges successfully (scope id set, cached token within
\* the margin or absent) returns the newly issued token, not the previous
\* one, and the cache becomes exactly {that token, now + 3600} with now the
\* instant read when the call began.
C3_ExchangeReplacesCache ==
    \A a \in Apps :
        LET c == lastCall[a] IN
        c.path = "exchange" =>
            /\ apps[a].installation_id
            /\ ~WasValid(c)
            /\ c.posted
            /\ NewlyMinted(a, c)
            /\ c.ret.kind = "inst"
            /\ c.ret # c.oldTok
            /\ cachedTok[a] = c.ret
            /\ expiresAt[a] = c.now + TokenLifetime

\* a refresh at the margin that replaced an earlier token
C3_Witness ==
    \E a \in Apps :
        /\ lastCall[a].path = "exchange"
        /\ lastCall[a].oldTok.kind = "inst"
        /\ lastCall[a].now > 0
        /\ cachedTok[a] = lastCall[a].ret
        /\ cachedTok[a] # lastCall[a].oldTok
        /\ expiresAt[a] = lastCall[a].now + TokenLifetime

C5_AuthFailureYieldsFailureMarker ==
    \A a \in Apps :
        (/\ IsApp(a)
         /\ pc[a] = "gql_auth"
         /\ lastCall[a].path \in {"nokey", "xfail"})
            => rest[a] = "error"

\* the entry is handled as a failure by its consumers ('error' in the entry
\* or in its rest_api part)
IsFailure(e) == e.kind = "task_error" \/ (e.kind = "record" /\ e.rest = "error")
IsSuccess(e) == e.kind = "record" /\ e.rest = "ok"
Unreadable(a) == IsApp(a) /\ apps[a].keyFile = "unreadable"

\* exactly one account has an unreadable key, the others are in order
OneUnreadableKey ==
    /\ jwtAvailable
    /\ Cardinality({a \in Apps : Unreadable(a)}) = 1
    /\ \A a \in Apps : apps[a].keyFile # "malformed"

\* C6: with exactly one account's key unreadable and the API answering every
\* request successfully, check_all_apps returns one entry per account: a
\* failure marker for the account with the unreadable key, success snapshots
\* for the others.
C6_UnreadableKeyYieldsOneFailureMarker ==
    (pcMain = "returned" /\ OneUnreadableKey /\ ~apiFailed) =>
        \A a \in Apps :
            /\ results[a].kind # "absent"
            /\ Unreadable(a) => IsFailure(results[a])
            /\ ~Unreadable(a) => IsSuccess(results[a])

\* C7: a task that raised is stored as a failure marker under its own
\* account, the other tasks finish and contribute their own records, and
\* the error never leaves check_all_apps.
C7_TaskErrorIsIsolated ==
    /\ pcMain # "crashed"
    /\ \A a \in Apps :
        (pc[a] = "raised" /\ results[a].kind # "absent") => results[a] = TaskError
    /\ pcMain = "returned" =>
        \A a \in Apps :
            \/ pc[a] = "raised" /\ results[a] = TaskError
            \/ pc[a] = "done" /\ results[a] = Record(rest[a], gql[a])

\* one task raised, another one completed, both have their entry
C7_Witness ==
    /\ pcMain = "returned"
    /\ \E a, b \in Apps :
        /\ pc[a] = "raised" /\ results[a] = TaskError
        /\ pc[b] = "done" /\ results[b].kind = "record"

\* C8: when check_all_apps returns, no task is queued or running and the
\* result holds an entry for every account.
C8_ReturnsAfterAllTasks ==
    pcMain = "returned" =>
        \A a \in Apps : pc[a] \in Terminated /\ results[a].kind # "absent"

\* a second pass that returned with a record for every account
C8_Witness ==
    /\ pcMain = "returned"
    /\ passes = 2
    /\ \A a \in Apps : results[a].kind = "record"

\* C9: in every task that has ended, whatever happened to the counter fetch
\* (a failure while obtaining its credential included), the graph-query
\* fetch was attempted.
C9_BothFetchesAlwaysAttempted ==
    \A a \in Apps : pc[a] \in Terminated => gql[a] # "unset"

Scraped == mode = "serve" /\ pcMain = "presented"
Reported == mode \in {"single", "watch"} /\ pcMain = "presented"

\* C11, as stated: the github_app_status gauge of an account is 0 whenever
\* the account's entry is a failure (a failed counter fetch, or the marker
\* check_all_apps stores for a task that raised), and 1 only when the fetch
\* succeeded.
C11_HealthGaugeZeroOnEveryFailure ==
    Scraped =>
        \A a \in Apps :
            /\ IsFailure(results[a]) => resp.body[a].health = 0
            /\ resp.body[a].health = 1 => IsSuccess(results[a])

\* C12, as stated: a per-account error of any kind never ends the process;
\* the text report of single-check and watch mode handles every entry, with
\* the error line for an account whose entry is a failure.
C12_AccountErrorNeverAborts ==
    /\ pcMain # "aborted"
    /\ Reported =>
        \A a \in Apps : IsFailure(results[a]) => resp.body[a].text = "error"

\* C13: every GET for /metrics starts exactly one check_all_apps pass, and
\* the 200 response holds the rendering of that pass's entries, each entry
\* being what the account's task of that pass left; a GET for any other path
\* starts no pass and is answered 404 with an empty body.
C13_OneFreshPassPerScrape ==
    mode = "serve" =>
        /\ scrapes = passes + (IF pcMain = "idle" THEN 1 ELSE 0)
        /\ req # "/metrics" => pcMain = "serving" /\ passes = scrapes
        /\ req = "/other" => resp = [code |-> 404, body |-> NoResp.body]
        /\ Scraped =>
            /\ req = "/metrics"
            /\ resp.code = 200
            /\ \A a \in Apps :
                /\ results[a] = CollectEntry(a)
                /\ resp.body[a] = MetricsLines(results[a])
                /\ resp.body[a].restGauges = (pc[a] = "done" /\ rest[a] = "ok")

\* the second scrape has been answered, after a first one that found the
\* account's REST fetch failing
C13_Witness ==
    /\ Scraped
    /\ passes = 2
    /\ scrapes = 2
    /\ \E a \in Apps : resp.body[a].restGauges /\ resp.body[a].health = 1

(***************************************************************************)
(* print_rate_limit_status: the status label of one resource category.     *)
(***************************************************************************)
\* if percentage_remaining > 50 / elif percentage_remaining > 20
HealthyAbove == 50
WarningAbove == 20

\* (variant: the comparison admits the boundary)
RemainingAbove_inclusive(lim, rem, t) ==
    IF lim > 0 THEN rem * 100 >= t * lim ELSE 0 >= t

\* percentage_remaining > t, where
\* percentage_remaining = (remaining / limit * 100) if limit > 0 else 0
\* (the quotient is compared exactly: rem / lim * 100 > t iff rem * 100 > t * lim)
RemainingAbove(lim, rem, t) ==
    IF lim > 0 THEN rem * 100 > t * lim ELSE 0 > t

StatusLabel(lim, rem) ==
    IF RemainingAbove(lim, rem, HealthyAbove) THEN "HEALTHY"
    ELSE IF RemainingAbove(lim, rem, WarningAbove) THEN "WARNING"
    ELSE "CRITICAL"

\* the report of one REST snapshot: any limit and remaining for the first
\* resource category
InitStatus ==
    /\ CoreInit
    /\ apps = [a \in Apps |-> PatProfile]
    /\ jwtAvailable
    /\ mode = "single"
    /\ limit \in 0..MaxLimit
    /\ remaining \in 0..MaxLimit
    /\ status = "unset"
    /\ PoolIdle
    /\ CallersIdle

\* the label of the category is computed (and printed)
LabelResource ==
    /\ status = "unset"
    /\ status' = StatusLabel(limit, remaining)
    /\ UNCHANGED <<apps, jwtAvailable, clock, cachedTok, expiresAt, sessions,
                   issued, pcMain, passes, results, pc, tnow, rest, gql,
                   bearer, apiFailed, lastCall, presVars>>
    /\ UNCHANGED <<limit, remaining, numTasks, slot, cpc, cnow, ctok, cseen,
                   cret, expFor>>

\* for resource_name, limits in resources.items(): the next category
NextResource ==
    /\ status # "unset"
    /\ limit' \in 0..MaxLimit
    /\ remaining' \in 0..MaxLimit
    /\ status' = "unset"
    /\ UNCHANGED <<apps, jwtAvailable, clock, cachedTok, expiresAt, sessions,
                   issued, pcMain, passes, results, pc, tnow, rest, gql,
                   bearer, apiFailed, lastCall, presVars>>
    /\ UNCHANGED <<numTasks, slot, cpc, cnow, ctok, cseen, cret, expFor>>

NextStatus == LabelResource \/ NextResource

SpecStatus == InitStatus /\ [][NextStatus]_vars

\* C14: the label is HEALTHY exactly when remaining / limit > 0.5, WARNING
\* exactly when 0.2 < remaining / limit <= 0.5, and CRITICAL otherwise, a
\* limit of 0 included; a ratio of exactly 0.5 is WARNING and a ratio of
\* exactly 0.2 is CRITICAL.
C14_StatusLabelByRatio ==
    status # "unset" =>
        /\ status = "HEALTHY" <=> (limit > 0 /\ 2 * remaining > limit)
        /\ status = "WARNING" <=>
              (limit > 0 /\ 5 * remaining > limit /\ 2 * remaining <= limit)
        /\ status = "CRITICAL" <=> (limit = 0 \/ 5 * remaining <= limit)
        /\ (limit > 0 /\ 2 * remaining = limit) => status = "WARNING"
        /\ (limit > 0 /\ 5 * remaining = limit) => status = "CRITICAL"

\* a category at exactly one half of its limit has been labelled
C14_Witness ==
    /\ limit > 0
    /\ 2 * remaining = limit
    /\ status = "WARNING"

(***************************************************************************)
(* Accounts by credential kind.                                            *)
(***************************************************************************)
\* positions of a task after its first request was sent
Requested == {"gql_auth", "gql_xchg", "gql_req", "done"}

\* C15: for an account with a static token the minter is never entered (no
\* call completes, none raises, no exchange request is in flight or issued a
\* token), the cached token and its expiry keep their initial values, and
\* the session header and every request sent carry the static token, in the
\* first poll cycle and in every later one.
C15_StaticTokenNeverMints ==
    \A a \in Apps :
        apps[a].token =>
            /\ lastCall[a] = NoCall
            /\ pc[a] \notin XchgPcs \cup {"raised"}
            /\ issued[a] = 0
            /\ tnow[a] = 0
            /\ cachedTok[a] = None
            /\ expiresAt[a] = 0
            /\ sessions[SessionKey(a)] = Pat(a)
            /\ bearer[a] \in {None, Pat(a)}
            /\ pc[a] \in Requested => bearer[a] = Pat(a)

\* a static-token account has finished its task of the second poll cycle,
\* next to a GitHub App account that exchanged a token
C15_Witness ==
    /\ passes = 2
    /\ \E a, b \in Apps :
        /\ apps[a].token
        /\ pc[a] = "done"
        /\ bearer[a] = Pat(a)
        /\ cachedTok[b].kind = "inst"

\* a GitHub App account without an installation id
NoScope(a) == IsApp(a) /\ ~apps[a].installation_id

Shared == 1

InitCallers ==
    /\ CoreInit
    /\ apps = [a \in Apps |->
                [token |-> FALSE, app_id |-> TRUE, installation_id |-> TRUE,
                 private_key_path |-> TRUE, keyFile |-> "ok"]]
    /\ jwtAvailable
    /\ mode = "single"
    /\ StatusIdle
    /\ PoolIdle
    /\ CallersIdle

\* a step of a caller touches the caller's locals and the account's cache only
CallerFrame ==
    UNCHANGED <<apps, jwtAvailable, clock, sessions, pcMain, passes, results,
                pc, tnow, rest, gql, bearer, apiFailed, lastCall, presVars,
                limit, remaining, status, numTasks, slot>>

\* now = int(time.time())
CallerEnter(c) ==
    /\ cpc[c] = "idle"
    /\ cnow' = [cnow EXCEPT ![c] = clock]
    /\ cpc' = [cpc EXCEPT ![c] = "read_tok"]
    /\ UNCHANGED <<ctok, cseen, cret, expFor, cachedTok, expiresAt, issued>>
    /\ CallerFrame

\* if app.cached_installation_token ...: the first operand of the 'and'
CallerReadToken(c) ==
    /\ cpc[c] = "read_tok"
    /\ cseen' = [cseen EXCEPT ![c].tok = cachedTok[Shared]]
    /\ cpc' = [cpc EXCEPT ![c] =
                IF cachedTok[Shared] # None THEN "read_exp" ELSE "post"]
    /\ UNCHANGED <<cnow, ctok, cret, expFor, cachedTok, expiresAt, issued>>
    /\ CallerFrame

\* ... and app.token_expires_at > (now + 300): the second operand; when it
\* fails the key is read, the assertion signed and the exchange requested
CallerReadExpiry(c) ==
    /\ cpc[c] = "read_exp"
    /\ cseen' = [cseen EXCEPT ![c].exp = expiresAt[Shared], ![c].expFor = expFor]
    /\ cpc' = [cpc EXCEPT ![c] =
                IF expiresAt[Shared] > cnow[c] + Margin THEN "ret_cache" ELSE "post"]
    /\ UNCHANGED <<cnow, ctok, cret, expFor, cachedTok, expiresAt, issued>>
    /\ CallerFrame

\* return app.cached_installation_token (line 125 reads the field again)
CallerReturnCached(c) ==
    /\ cpc[c] = "ret_cache"
    /\ cret' = [cret EXCEPT ![c] = cachedTok[Shared]]
    /\ cpc' = [cpc EXCEPT ![c] = "returned"]
    /\ UNCHANGED <<cnow, ctok, cseen, expFor, cachedTok, expiresAt, issued>>
    /\ CallerFrame

\* token_data = response.json()
CallerPostOk(c) ==
    /\ cpc[c] = "post"
    /\ issued[Shared] < MaxTokens
    /\ issued' = [issued EXCEPT ![Shared] = @ + 1]
    /\ ctok' = [ctok EXCEPT ![c] = InstTok(Shared, issued[Shared] + 1)]
    /\ cpc' = [cpc EXCEPT ![c] = "write_tok"]
    /\ UNCHANGED <<cnow, cseen, cret, expFor, cachedTok, expiresAt>>
    /\ CallerFrame

\* except requests.exceptions.RequestException: return None
CallerPostFail(c) ==
    /\ cpc[c] = "post"
    /\ cret' = [cret EXCEPT ![c] = OnExchangeFailure(Jwt(Shared, cnow[c]))]
    /\ cpc' = [cpc EXCEPT ![c] = "returned"]
    /\ UNCHANGED <<cnow, ctok, cseen, expFor, cachedTok, expiresAt, issued>>
    /\ CallerFrame

\* app.cached_installation_token = token_data['token']
CallerWriteToken(c) ==
    /\ cpc[c] = "write_tok"
    /\ cachedTok' = [cachedTok EXCEPT ![Shared] = ctok[c]]
    /\ cpc' = [cpc EXCEPT ![c] = "write_exp"]
    /\ UNCHANGED <<cnow, ctok, cseen, cret, expFor, expiresAt, issued>>
    /\ CallerFrame

\* app.token_expires_at = now + 3600
CallerWriteExpiry(c) ==
    /\ cpc[c] = "write_exp"
    /\ expiresAt' = [expiresAt EXCEPT ![Shared] = ExpiryOnExchange(cnow[c])]
    /\ expFor' = ctok[c]
    /\ cpc' = [cpc EXCEPT ![c] = "ret_new"]
    /\ UNCHANGED <<cnow, ctok, cseen, cret, cachedTok, issued>>
    /\ CallerFrame

\* return app.cached_installation_token (line 160 reads the field again)
CallerReturnNew(c) ==
    /\ cpc[c] = "ret_new"
    /\ cret' = [cret EXCEPT ![c] = cachedTok[Shared]]
    /\ cpc' = [cpc EXCEPT ![c] = "returned"]
    /\ UNCHANGED <<cnow, ctok, cseen, expFor, cachedTok, expiresAt, issued>>
    /\ CallerFrame

\* the thread is done with the value and may call again
CallerLeave(c) ==
    /\ cpc[c] = "returned"
    /\ cpc' = [cpc EXCEPT ![c] = "idle"]
    /\ cnow' = [cnow EXCEPT ![c] = 0]
    /\ ctok' = [ctok EXCEPT ![c] = None]
    /\ cseen' = [cseen EXCEPT ![c] = NoRead]
    /\ cret' = [cret EXCEPT ![c] = None]
    /\ UNCHANGED <<expFor, cachedTok, expiresAt, issued>>
    /\ CallerFrame

NextCallers ==
    \/ Tick
    \/ \E c \in Callers : CallerEnter(c)
    \/ \E c \in Callers : CallerReadToken(c)
    \/ \E c \in Callers : CallerReadExpiry(c)
    \/ \E c \in Callers : CallerReturnCached(c)
    \/ \E c \in Callers : CallerPostOk(c)
    \/ \E c \in Callers : CallerPostFail(c)
    \/ \E c \in Callers : CallerWriteToken(c)
    \/ \E c \in Callers : CallerWriteExpiry(c)
    \/ \E c \in Callers : CallerReturnNew(c)
    \/ \E c \in Callers : CallerLeave(c)

SpecCallers == InitCallers /\ [][NextCallers]_vars

\* the call returned the cached token at line 125
ViaCache(c) == cpc[c] = "returned" /\ ctok[c] = None /\ cret[c] # None

\* C17, as stated: with several threads in the minter for one account, no
\* call returns a cached token on the strength of an expiry that was written
\* for a different token, and once every call has finished the cache holds
\* the token and the expiry written by one and the same call.
C17_CachePairNeverTorn ==
    /\ \A c \in Callers : ViaCache(c) => cseen[c].expFor = cret[c]
    /\ (\A c \in Callers : cpc[c] \in {"idle", "returned"}) =>
            expFor = cachedTok[Shared]

(***************************************************************************)
(* check_all_apps: the executor of one pass over numTasks accounts.  What  *)
(* a task does is of no concern here; a task is submitted, taken by a      *)
(* worker thread and finished.                                             *)
(***************************************************************************)
\* (variant: one worker per account)
WidthFor_all(n) == n

\* ThreadPoolExecutor(max_workers=min(len(self.apps), 10))
WidthFor(n) == Min(n, MaxWorkers)

RunningSlots == {i \in Slots : slot[i] = "running"}

\* a pass over 1 .. MaxTasks accounts (main exits when there is no account)
InitPool ==
    /\ CoreInit
    /\ apps = [a \in Apps |-> PatProfile]
    /\ jwtAvailable
    /\ mode = "single"
    /\ StatusIdle
    /\ CallersIdle
    /\ numTasks \in 1..MaxTasks
    /\ slot = [i \in Slots |-> "none"]

\* unchanged by the executor
PoolFrame ==
    UNCHANGED <<apps, jwtAvailable, clock, cachedTok, expiresAt, sessions,
                issued, pcMain, passes, results, pc, tnow, rest, gql, bearer,
                apiFailed, lastCall, presVars, limit, remaining, status,
                numTasks, cpc, cnow, ctok, cseen, cret, expFor>>

\* executor.submit(self._check_app_limits, app): for app in self.apps, in order
PoolSubmit(i) ==
    /\ i <= numTasks
    /\ slot[i] = "none"
    /\ \A j \in Slots : j < i => slot[j] # "none"
    /\ slot' = [slot EXCEPT ![i] = "queued"]
    /\ PoolFrame

\* a worker thread takes the future from the queue; the executor has at most
\* max_workers threads
PoolStart(i) ==
    /\ slot[i] = "queued"
    /\ Cardinality(RunningSlots) < WidthFor(numTasks)
    /\ slot' = [slot EXCEPT ![i] = "running"]
    /\ PoolFrame

\* _check_app_limits returned or raised
PoolFinish(i) ==
    /\ slot[i] = "running"
    /\ slot' = [slot EXCEPT ![i] = "finished"]
    /\ PoolFrame

NextPool ==
    \/ \E i \in Slots : PoolSubmit(i)
    \/ \E i \in Slots : PoolStart(i)
    \/ \E i \in Slots : PoolFinish(i)

SpecPool == InitPool /\ [][NextPool]_vars

\* C18: in a pass over N >= 1 accounts there is a task for an account of the
\* pass only, once the submission is over every account has its task, and at
\* no moment do more than min(N, 10) tasks execute.
C18_OneTaskPerAccountWithinWidth ==
    /\ numTasks >= 1
    /\ \A i \in Slots : i > numTasks => slot[i] = "none"
    /\ (slot[numTasks] # "none") => (\A i \in 1..numTasks : slot[i] # "none")
    /\ Cardinality(RunningSlots) <= Min(numTasks, 10)

\* eleven accounts: ten tasks execute and the eleventh waits for a worker
C18_Witness ==
    /\ numTasks > MaxWorkers
    /\ Cardinality(RunningSlots) = MaxWorkers
    /\ \E i \in Slots : slot[i] = "queued"

(***************************************************************************)
(* Credential kinds of an account and the graph-query gauges.              *)
(***************************************************************************)
\* the account has a signing identity: app.app_id and app.private_key_path
HasIdentity(a) == apps[a].app_id /\ apps[a].private_key_path

\* C19, as stated: every account, once constructed, has exactly one
\* credential kind, a static token or a signing identity, never both and
\* never neither.
C19_ExactlyOneCredentialKind ==
    \A a \in Apps : apps[a].token # HasIdentity(a)

\* C20, as stated: the three graph-query gauges are written for an account
\* exactly when its entry holds a graph-query rate-limit record (the query
\* succeeded and the answer held the rateLimit object); after a failed query,
\* an answer with an error list or an answer without rateLimit there is no
\* graph-query gauge.
C20_GqlGaugesOnlyForARecord ==
    Scraped =>
        \A a \in Apps :
            resp.body[a].gqlGauges <=>
                (results[a].kind = "record" /\ results[a].graphql = "ok")

(***************************************************************************)
(* One single-check run under a fair scheduler: every thread that can take *)
(* a step eventually takes one, and every request sent is eventually       *)
(* answered or ends in a RequestException (timeout=10 on every request).   *)
(***************************************************************************)
InitSingle == Init /\ mode = "single"

NextSingle ==
    \/ Tick
    \/ StartPass
    \/ \E a \in Apps : TaskStart(a)
    \/ \E a \in Apps : EnsureAuth(a)
    \/ \E a \in Apps : ExchangeOk(a)
    \/ \E a \in Apps : ExchangeFail(a)
    \/ \E a \in Apps : RestFetch(a)
    \/ \E a \in Apps : GqlFetch(a)
    \/ \E a \in Apps : Collect(a)
    \/ Return
    \/ Present
    \/ NextCycle

\* the worker threads and the thread inside check_all_apps are scheduled
\* fairly; a request in flight ends with an answer or with an exception
Fairness ==
    /\ \A a \in Apps : WF_vars(TaskStart(a))
    /\ \A a \in Apps : WF_vars(EnsureAuth(a))
    /\ \A a \in Apps : WF_vars(ExchangeOk(a) \/ ExchangeFail(a))
    /\ \A a \in Apps : WF_vars(RestFetch(a))
    /\ \A a \in Apps : WF_vars(GqlFetch(a))
    /\ \A a \in Apps : WF_vars(Collect(a))
    /\ WF_vars(Return)

SpecFair == InitSingle /\ [][NextSingle]_vars /\ Fairness

C22_FailedCallLeavesCache ==
    \A a \in Apps :
        /\ lastCall[a].path \in {"nokey", "xfail"} =>
            /\ lastCall[a].ret = None
            /\ cachedTok[a] = lastCall[a].oldTok
            /\ expiresAt[a] = lastCall[a].oldExp
        /\ cachedTok[a] = None <=> expiresAt[a] = 0
        /\ cachedTok[a] = None <=> issued[a] = 0
        /\ cachedTok[a] # None => cachedTok[a] = InstTok(a, issued[a])
        /\ lastCall[a].path = "exchange" =>
            /\ cachedTok[a] = lastCall[a].ret
            /\ expiresAt[a] = lastCall[a].now + TokenLifetime

\* the refresh of a cached token failed at the exchange and the cache still
\* holds the old token with its old expiry
C22_Witness ==
    \E a \in Apps :
        /\ lastCall[a].path = "xfail"
        /\ lastCall[a].oldTok.kind = "inst"
        /\ cachedTok[a] = lastCall[a].oldTok
        /\ expiresAt[a] = lastCall[a].oldExp
        /\ expiresAt[a] <= lastCall[a].now + Margin

=============================================================================
